---- MODULE Spec2Model ----
(***************************************************************************)
(* State-machine model of the BGM content engine:                          *)
(*   - ObservableContentStore (polling, fingerprinting, subscribers)       *)
(*   - BGM_Core (hash routing, renderRoute, view transitions)              *)
(* Two revisions of the engine exist in the repository; `rev` selects      *)
(* which one a behaviour follows ("A": the revision whose load catches     *)
(* errors and whose renderRoute has no in-flight guard, "B": the revision  *)
(* whose load throws and whose renderRoute drops renders in flight).       *)
(***************************************************************************)
EXTENDS Integers, Sequences, FiniteSets, TLC

VARIABLES
    rev,        \* engine revision, fixed for a behaviour
    animated,   \* enableViewTransitions && "startViewTransition" in document
    observers,  \* store.observers: a Set, kept in insertion order
    data,       \* store.data
    signature,  \* store.signature
    timerId,    \* store.timerId (0: null, otherwise the id setInterval returned)
    armed,      \* number of intervals armed in the window
    now,        \* Date.now(), in ms
    fetches,    \* fetches awaited inside load, not yet resolved, in issue order
    polls,      \* interval firings so far
    navs,       \* address changes and clicks made from outside so far
    initPc,     \* position of bgmApp.init()
    app,        \* BGM_Core.state plus the browser surfaces it drives
    handles,    \* unsubscribe closures handed out by subscribe
    queued,     \* route last requested while a transition was in flight
    lastOp,     \* what the last step did (operation, outcome, notifications)
    legacy      \* the legacy App of app.js and the page it runs in

vars == <<rev, animated, observers, data, signature, timerId, armed, now, fetches,
          polls, navs, initPc, app, handles, queued, lastOp, legacy>>

----------------------------------------------------------------------------
(* Bounds *)
MaxPolls    == 1   \* interval firings in a behaviour
MaxNavs     == 1   \* outside address changes and clicks in a behaviour
MaxFetches  == 2   \* fetches outstanding at once
MaxPending  == 2   \* commits scheduled and not yet finished at once
MaxHandles  == 2   \* unsubscribe handles handed out to outside observers
MaxHashEvts == 1   \* hashchange events queued at once
MaxTicks    == 2   \* loads after the one of init, where ticks may overlap
MaxNow      == 9000   \* the clock stops here (ms)
MaxStack    == 3   \* nested router() calls the call stack of the legacy page holds
MaxBack     == 2   \* history entries behind the current one on the legacy page
MaxCallbacks == 2  \* view-transition update callbacks of the legacy page not yet run

(* Values *)
Null       == [null |-> TRUE]
Tokens     == {"home", "latest", "watch", "a1"}   \* fragments and click targets
Strings    == Tokens \cup {"ghost", ""}           \* any route candidate
Outside    == {"o1", "o2"}          \* observers other than the controller's
Statuses   == {404, 500}

Literals   == IF rev = "A" THEN {"home", "latest", "watch"} ELSE {"home", "latest"}

(* The bodies a successful fetch can carry: a content document with an       *)
(* optional meta.defaultRoute ("" when absent) and an ordered articles list. *)
(* keyOrder is the order in which the document lists its top-level keys.     *)
Bodies ==
    {[defaultRoute |-> "",       articles |-> <<"a1">>, keyOrder |-> "ma"],
     [defaultRoute |-> "",       articles |-> <<"a1">>, keyOrder |-> "am"],
     [defaultRoute |-> "latest", articles |-> <<>>,     keyOrder |-> "ma"],
     [defaultRoute |-> "ghost",  articles |-> <<"a1">>, keyOrder |-> "ma"]}

(* response.json(): the parsed value is a fresh object on every call; `id` *)
(* is its identity.                                                        *)
Parse(body, id) ==
    [obj |-> id, defaultRoute |-> body.defaultRoute,
     articles |-> body.articles, keyOrder |-> body.keyOrder]

(* JSON.stringify(nextData): keys are written in the object's own key order, *)
(* so the string depends on the content and on that order, not on identity.  *)
Stringify(d) ==
    IF d.keyOrder = "ma"
    THEN <<"{", "meta", d.defaultRoute, "articles">> \o d.articles \o <<"}">>
    ELSE <<"{", "articles">> \o d.articles \o <<"meta", d.defaultRoute, "}">>

Range(s) == {s[i] : i \in 1..Len(s)}

Remove(s, x) == SelectSeq(s, LAMBDA y : y # x)

SetAdd_Appends(s, x) == Append(s, x)

(* Set.prototype.add: appends unless already present (insertion order kept). *)
SetAdd(s, x) == IF x \in Range(s) THEN s ELSE Append(s, x)

----------------------------------------------------------------------------
(* BGM_Core: routing.  `c` is the controller record (this.state, the        *)
(* address bar, the queue of scheduled commits and the mount surface).      *)

(* window.location.hash is "" or "#" followed by the fragment; it is kept   *)
(* as a sequence of pieces so that stripping and trimming are computed.     *)
NoHash     == <<>>
HashOf(t)  == <<"#", t>>
Hashes     == {NoHash} \cup {HashOf(t) : t \in Tokens}

StripMarker(h) == IF h # <<>> /\ Head(h) = "#" THEN Tail(h) ELSE h

RECURSIVE TrimLeft(_)
TrimLeft(h) == IF h # <<>> /\ Head(h) = " " THEN TrimLeft(Tail(h)) ELSE h

RECURSIVE TrimRight(_)
TrimRight(h) ==
    IF h # <<>> /\ h[Len(h)] = " " THEN TrimRight(SubSeq(h, 1, Len(h) - 1)) ELSE h

Trim(h) == TrimRight(TrimLeft(h))

parseHashRoute_NoDefault(c) ==
    LET value == Trim(StripMarker(c.hash))
    IN  IF value # <<>> THEN value[1] ELSE "home"

parseHashRoute(c) ==
    LET value == Trim(StripMarker(c.hash))
    IN  IF value # <<>> THEN value[1]
        ELSE IF c.content # Null /\ c.content.defaultRoute # ""
             THEN c.content.defaultRoute
             ELSE "home"

normalizeRoute_FallsToDefault(c, routeCandidate) ==
    IF routeCandidate \in Literals THEN routeCandidate
    ELSE IF routeCandidate \in DOMAIN c.articlesById THEN routeCandidate
    ELSE IF c.content # Null /\ c.content.defaultRoute # ""
         THEN c.content.defaultRoute
    ELSE "home"

normalizeRoute_NeedsContent(c, routeCandidate) ==
    IF routeCandidate \in Literals THEN routeCandidate
    ELSE IF c.content = Null THEN "TypeError"
    ELSE IF routeCandidate \in Range(c.content.articles) THEN routeCandidate
    ELSE "home"

normalizeRoute(c, routeCandidate) ==
    IF routeCandidate \in Literals THEN routeCandidate
    ELSE IF routeCandidate \in DOMAIN c.articlesById THEN routeCandidate
    ELSE "home"

(* The guard of renderRoute: revision B also returns while a transition is  *)
(* in flight, revision A only when no content is loaded.                    *)
renderGuard(c) ==
    \/ c.content = Null
    \/ rev = "B" /\ c.isNavigating

renderRoute_CallbackBeforeGuard(c, route) ==
    LET c0 == [c EXCEPT !.attempts = Append(@, route),
                        !.calls = Append(@, route),
                        !.seen  = Append(@, c.isNavigating)]
        c1 == [c0 EXCEPT !.currentRoute = route,
                         !.commitSnap   = Range(c.content.articles)]
        c3 == [c1 EXCEPT !.isNavigating = TRUE]
        c4 == [c3 EXCEPT !.transitions = Append(@, [route |-> route, stage |-> "scheduled"])]
    IN  IF renderGuard(c) THEN c0 ELSE c4

renderRoute_RouteBeforeGuard(c, route) ==
    LET c0 == [c EXCEPT !.attempts = Append(@, route),
                        !.currentRoute = route]
        c1 == [c0 EXCEPT !.commitSnap   = Range(c.content.articles)]
        c2 == [c1 EXCEPT !.calls = Append(@, c1.currentRoute),
                         !.seen  = Append(@, c1.isNavigating)]
        c3 == [c2 EXCEPT !.isNavigating = TRUE]
        c4 == [c3 EXCEPT !.transitions = Append(@, [route |-> route, stage |-> "scheduled"])]
    IN  IF renderGuard(c) THEN c0 ELSE c4

(* renderRoute, statement by statement: the guard; currentRoute; the       *)
(* onRouteChange callback (calls: its argument, seen: the isNavigating it   *)
(* can read at that moment); isNavigating; the commit handed to the         *)
(* browser.  attempts lists every call, including the ones the guard ends.  *)
renderRoute(c, route) ==
    LET c0 == [c EXCEPT !.attempts = Append(@, route)]
        c1 == [c0 EXCEPT !.currentRoute = route,
                         !.commitSnap   = Range(c.content.articles)]
        c2 == [c1 EXCEPT !.calls = Append(@, c1.currentRoute),
                         !.seen  = Append(@, c1.isNavigating)]
        c3 == [c2 EXCEPT !.isNavigating = TRUE]
        c4 == [c3 EXCEPT !.transitions = Append(@, [route |-> route, stage |-> "scheduled"])]
    IN  IF renderGuard(c) THEN c0 ELSE c4

navigate_AlsoRenders(c, route) ==
    LET normalizedRoute == normalizeRoute(c, route)
        targetHash      == HashOf(normalizedRoute)
    IN  IF c.hash # targetHash
        THEN renderRoute([c EXCEPT !.hash = targetHash, !.hashEvents = @ + 1],
                         normalizedRoute)
        ELSE renderRoute(c, normalizedRoute)

navigate(c, route) ==
    LET normalizedRoute == normalizeRoute(c, route)
        targetHash      == HashOf(normalizedRoute)
    IN  IF c.hash # targetHash
        THEN [c EXCEPT !.hash = targetHash, !.hashEvents = @ + 1]
        ELSE renderRoute(c, normalizedRoute)

handleRouteChange(c) ==
    LET requestedRoute  == parseHashRoute(c)
        normalizedRoute == normalizeRoute(c, requestedRoute)
    IN  IF normalizedRoute # requestedRoute
        THEN navigate(c, normalizedRoute)
        ELSE renderRoute(c, normalizedRoute)

(* new Map(content.articles.map(a => [a.id, a])): every key maps to the     *)
(* article object of the snapshot it was built from.                        *)
IndexOf(content) == [id \in Range(content.articles) |-> content.obj]

onContentUpdate_Patches(c, content) ==
    LET fresh == IndexOf(content)
        c1 == [c EXCEPT !.content = content,
                        !.articlesById =
                            [id \in DOMAIN c.articlesById \cup DOMAIN fresh |->
                                IF id \in DOMAIN fresh THEN fresh[id]
                                ELSE c.articlesById[id]]]
    IN  IF rev = "A"
        THEN IF ~c1.isNavigating THEN renderRoute(c1, c1.currentRoute) ELSE c1
        ELSE handleRouteChange(c1)

onContentUpdate(c, content) ==
    LET c1 == [c EXCEPT !.content = content,
                        !.articlesById = IndexOf(content)]
    IN  IF rev = "A"
        THEN IF ~c1.isNavigating THEN renderRoute(c1, c1.currentRoute) ELSE c1
        ELSE handleRouteChange(c1)

(* routeRenderer: what the mount shows after the commit of `route`. *)
routeRenderer(c, route) ==
    IF route \in Literals \/ route \notin DOMAIN c.articlesById
    THEN [view |-> "home", id |-> "", obj |-> c.content.obj]
    ELSE [view |-> "article", id |-> route, obj |-> c.articlesById[route]]

Blank    == [view |-> "blank", id |-> "", obj |-> 0]
Degraded == [view |-> "failed", id |-> "", obj |-> 0]

----------------------------------------------------------------------------
(* ObservableContentStore *)

NoBody    == [defaultRoute |-> "", articles |-> <<>>, keyOrder |-> "ma"]
Responses ==
    {[kind |-> "ok", status |-> 200, body |-> b] : b \in Bodies}
    \cup {[kind |-> "http", status |-> s, body |-> NoBody] : s \in Statuses}
    \cup {[kind |-> "parse", status |-> 200, body |-> NoBody]}

load_ClearsOnFailure(st, resp, id) ==
    LET failed == resp.kind # "ok"
        nextData      == Parse(resp.body, id)
        nextSignature == Stringify(nextData)
        changed       == ~failed /\ nextSignature # st.signature
    IN  [data      |-> IF failed THEN Null ELSE IF changed THEN nextData ELSE st.data,
         signature |-> IF failed THEN <<>> ELSE IF changed THEN nextSignature ELSE st.signature,
         changed   |-> changed,
         threw     |-> failed /\ rev = "B",
         errStatus |-> IF failed /\ rev = "B" /\ resp.kind = "http" THEN resp.status ELSE 0,
         returned  |-> Null]

load_KeepsFirst(st, resp, id) ==
    LET failed == resp.kind # "ok"
        nextData      == Parse(resp.body, id)
        nextSignature == Stringify(nextData)
        changed       == ~failed /\ st.signature = <<>>
    IN  [data      |-> IF changed THEN nextData ELSE st.data,
         signature |-> IF changed THEN nextSignature ELSE st.signature,
         changed   |-> changed,
         threw     |-> failed /\ rev = "B",
         errStatus |-> IF failed /\ rev = "B" /\ resp.kind = "http" THEN resp.status ELSE 0,
         returned  |-> IF failed /\ rev = "B" THEN Null
                       ELSE IF changed THEN nextData ELSE st.data]

load_AlwaysSwaps(st, resp, id) ==
    LET failed == resp.kind # "ok"
        nextData      == Parse(resp.body, id)
        nextSignature == Stringify(nextData)
        changed       == ~failed
    IN  [data      |-> IF changed THEN nextData ELSE st.data,
         signature |-> IF changed THEN nextSignature ELSE st.signature,
         changed   |-> changed,
         threw     |-> failed /\ rev = "B",
         errStatus |-> IF failed /\ rev = "B" /\ resp.kind = "http" THEN resp.status ELSE 0,
         returned  |-> IF failed /\ rev = "B" THEN Null
                       ELSE IF changed THEN nextData ELSE st.data]

(* The part of load after the awaited fetch.  st = [data, signature].       *)
(* Result: the store fields afterwards, whether notify() ran, whether the   *)
(* call threw and the status its error carries, and the value it returned.  *)
load(st, resp, id) ==
    LET failed == resp.kind # "ok"
        nextData      == Parse(resp.body, id)
        nextSignature == Stringify(nextData)
        changed       == ~failed /\ nextSignature # st.signature
    IN  [data      |-> IF changed THEN nextData ELSE st.data,
         signature |-> IF changed THEN nextSignature ELSE st.signature,
         changed   |-> changed,
         threw     |-> failed /\ rev = "B",
         errStatus |-> IF failed /\ rev = "B" /\ resp.kind = "http" THEN resp.status ELSE 0,
         returned  |-> IF failed /\ rev = "B" THEN Null
                       ELSE IF changed THEN nextData ELSE st.data]

notify_SkipsFirst(obs) == IF obs = <<>> THEN obs ELSE Tail(obs)

(* notify(): the observers invoked, in iteration (insertion) order. *)
notify(obs) == obs

subscribeCalls_Always(d, observer) == <<observer>>

(* subscribe(observer): the calls made to the observer inside subscribe. *)
subscribeCalls(d, observer) == IF d # Null THEN <<observer>> ELSE <<>>

unsubscribe_Clears(obs, observer) == IF observer \in Range(obs) THEN <<>> ELSE obs

(* The closure returned by subscribe: this.observers.delete(observer). *)
unsubscribe(obs, observer) == Remove(obs, observer)

start_NoGuard(tm) == [timerId |-> 1, armed |-> tm.armed + 1]

(* start(): arms an interval unless this.timerId is set.  tm = [timerId,    *)
(* armed]: the field and the number of intervals armed in the window.       *)
start(tm) ==
    IF tm.timerId # 0 THEN tm
    ELSE [timerId |-> 1, armed |-> tm.armed + 1]

(* stop(): clears the interval this.timerId names, if any. *)
stop(tm) ==
    IF tm.timerId = 0 THEN tm
    ELSE [timerId |-> 0, armed |-> tm.armed - 1]

pollFailed_Stops(tm) == stop(tm)

(* The catch handler of the interval callback: it logs, the timer stays. *)
pollFailed(tm) == tm

(* pollIntervalMs of DEFAULT_OPTIONS, handed to the store as intervalMs. *)
intervalMs == IF rev = "A" THEN 8000 ELSE 7000

cacheBust_Timestamp(force, t) == t

(* The cache-busting query parameter of load({force}) issued at time t. *)
cacheBust(force, t) == IF force THEN t ELSE t \div intervalMs

----------------------------------------------------------------------------
(* The legacy App (app.js) *)

LegacyIds    == {"a1", "a2"}          \* ids the cards of the home view link to
LegacyParams == {"", "a1", "zz"}      \* ?article= of the address: none, or an id
LegacyBodies == {[articles |-> ids] : ids \in {{}, {"a1"}, {"a1", "a2"}}}

(* The page before the browser opens it.  view: what #app shows ("" for the *)
(* empty container, "home", "offline" or the id of the article shown).      *)
(* rendered, threw, routers: what the last step rendered, whether it raised *)
(* a RangeError, and how many times it entered router().                    *)
Closed ==
    [pc |-> "closed", vt |-> FALSE, data |-> Null, article |-> "", back |-> <<>>,
     view |-> "", callbacks |-> <<>>, rendered |-> <<>>, threw |-> FALSE,
     routers |-> 0]

LegacyBegin(l) == [l EXCEPT !.rendered = <<>>, !.threw = FALSE, !.routers = 0]

RECURSIVE router(_, _)

(* renderHome(): fills #app with the home view. *)
renderHome(l) == [l EXCEPT !.view = "home", !.rendered = Append(@, "home")]

(* renderArticle(id): `if (!art) return this.router()`, otherwise the       *)
(* article view.  d: router() frames on the call stack.                     *)
renderArticle(l, id, d) ==
    IF id \notin l.data.articles THEN router(l, d + 1)
    ELSE [l EXCEPT !.view = id, !.rendered = Append(@, id)]

(* updateView(articleSlug) *)
updateView(l, articleSlug, d) ==
    IF articleSlug # "" THEN renderArticle(l, articleSlug, d) ELSE renderHome(l)

(* router(): reads ?article= from the address and updates the view, inside  *)
(* document.startViewTransition when the browser has it (the update         *)
(* callback runs later), directly otherwise.  A call the stack has no room  *)
(* for raises a RangeError; the async router() frame it unwinds to turns it *)
(* into a rejected promise nobody awaits, and the frames above return.      *)
router(l, d) ==
    IF d > MaxStack THEN [l EXCEPT !.threw = TRUE]
    ELSE LET l1 == [l EXCEPT !.routers = @ + 1]
         IN  IF l.vt THEN [l1 EXCEPT !.callbacks = Append(@, l.article)]
             ELSE updateView(l1, l.article, d)

----------------------------------------------------------------------------
OpRec(op) ==
    [op |-> op, kind |-> "", resp |-> "", status |-> 0, threw |-> FALSE,
     errStatus |-> 0, changed |-> FALSE, sig |-> <<>>, notified |-> <<>>,
     who |-> "", h |-> 0, again |-> FALSE, force |-> FALSE, v |-> 0,
     afterFail |-> FALSE, t |-> -1, pf |-> FALSE, pv |-> 0, pt |-> -1]

Begin(c) == [c EXCEPT !.attempts = <<>>, !.calls = <<>>, !.seen = <<>>]

Fits(c) == c.hashEvents <= MaxHashEvts /\ Len(c.transitions) <= MaxPending

(* The page when the engine script runs: before `new BGM_Core()` (built    *)
(* FALSE) or right after it (built TRUE).  shells: whether the mount lies   *)
(* inside a .route-shell element.                                           *)
Page(anim, hashes, shells, built) ==
    /\ rev \in {"A", "B"}
    /\ animated \in anim
    /\ observers = IF built THEN <<"core">> ELSE <<>>
    /\ data = Null
    /\ signature = <<>>
    /\ timerId = 0
    /\ armed = 0
    /\ now = 0
    /\ fetches = <<>>
    /\ polls = 0
    /\ navs = 0
    /\ initPc = IF built THEN "new" ELSE "boot"
    /\ app \in {[content |-> Null, articlesById |-> <<>>, currentRoute |-> "home",
                 isNavigating |-> FALSE, hash |-> h, hashEvents |-> 0,
                 transitions |-> <<>>, mount |-> Blank,
                 commitSnap |-> {}, attempts |-> <<>>, calls |-> <<>>,
                 seen |-> <<>>, listening |-> built, shell |-> sh]
                : h \in hashes, sh \in shells}
    /\ handles = <<>>
    /\ queued = ""
    /\ lastOp = OpRec("construct")
    /\ legacy = Closed

(* The state after `new BGM_Core()`, for the addresses in hashes, on a page *)
(* that has every element the engine reaches for.                           *)
Start(anim, hashes) == Page(anim, hashes, {TRUE}, TRUE)

Init == Start(BOOLEAN, {NoHash, HashOf("a1")})

InitStore == Start({FALSE}, {NoHash})

(* The page before the engine is constructed. *)
InitBoot == Page({FALSE}, {NoHash, HashOf("a1")}, {TRUE}, FALSE)

(* The constructed engine on pages with and without a .route-shell around   *)
(* the mount.                                                               *)
InitRender == Page({FALSE}, {NoHash, HashOf("a1")}, BOOLEAN, TRUE)

Surfaces == {"mount", "nav", "routeTitle"}

construct_SubscribesFirst(resolved) ==
    [threw |-> resolved # Surfaces, observers |-> <<"core">>,
     listening |-> resolved = Surfaces]

(* new BGM_Core(): resolved are the surfaces querySelector found.  The      *)
(* constructor throws unless all three are there; otherwise it subscribes   *)
(* to the store and attaches its listeners.                                 *)
construct(resolved) ==
    IF resolved # Surfaces
    THEN [threw |-> TRUE, observers |-> <<>>, listening |-> FALSE]
    ELSE [threw |-> FALSE, observers |-> SetAdd(<<>>, "core"), listening |-> TRUE]

(* The engine script reaches `const bgmApp = new BGM_Core()`; when that     *)
(* throws the script ends there and init is never called.                   *)
Construct(resolved) ==
    LET r == construct(resolved)
    IN  /\ initPc = "boot"
        /\ initPc' = IF r.threw THEN "dead" ELSE "new"
        /\ observers' = r.observers
        /\ app' = [Begin(app) EXCEPT !.listening = r.listening]
        /\ lastOp' = [OpRec("construct") EXCEPT !.threw = r.threw]
        /\ UNCHANGED <<legacy, rev, animated, data, signature, timerId, armed, now, fetches, polls, navs, handles, queued>>

(* bgmApp.init() up to its await: the forced load issues its fetch. *)
InitCall ==
    /\ initPc = "new"
    /\ initPc' = "loading"
    /\ fetches' = Append(fetches, "init")
    /\ app' = Begin(app)
    /\ lastOp' = [OpRec("init") EXCEPT !.kind = "init", !.force = TRUE,
                                       !.v = cacheBust(TRUE, now)]
    /\ UNCHANGED <<legacy, rev, animated, observers, data, signature, timerId, armed, now, polls, navs, handles, queued>>

Tick_InFlightGuard(limit, kind) ==
    /\ armed > 0
    /\ polls < limit
    /\ fetches = <<>>
    /\ polls' = polls + 1
    /\ fetches' = Append(fetches, kind)
    /\ app' = Begin(app)
    /\ lastOp' = [OpRec("tick") EXCEPT !.kind = kind, !.v = cacheBust(FALSE, now)]
    /\ UNCHANGED <<legacy, rev, animated, observers, data, signature, timerId, armed, now, navs, initPc, handles, queued>>

(* One firing of an armed interval: load() issues its fetch.  At most     *)
(* limit loads are issued after the one of init.  For a fetch of kind       *)
(* "tick" the history records failures and the order of arrival.            *)
Tick(limit, kind) ==
    /\ armed > 0
    /\ polls < limit
    /\ Len(fetches) < MaxFetches
    /\ polls' = polls + 1
    /\ fetches' = Append(fetches, kind)
    /\ app' = Begin(app)
    /\ lastOp' = [OpRec("tick") EXCEPT !.kind = kind,
                       !.v = cacheBust(FALSE, now),
                       !.afterFail = /\ lastOp.op = "load"
                                     /\ lastOp.kind \in {"tick", "tick-late"}
                                     /\ lastOp.resp # "ok"]
    /\ UNCHANGED <<legacy, rev, animated, observers, data, signature, timerId, armed, now, navs, initPc, handles, queued>>

PollTick == Tick(MaxPolls, "poll")

PollTickMany == Tick(MaxTicks, "tick")

(* store.load({ force }) called by other code of the page. *)
ManualLoad(force) ==
    /\ polls < MaxTicks
    /\ Len(fetches) < MaxFetches
    /\ polls' = polls + 1
    /\ fetches' = Append(fetches, "manual")
    /\ app' = Begin(app)
    /\ lastOp' = [OpRec("manual") EXCEPT !.kind = "manual", !.force = force,
                                         !.v = cacheBust(force, now), !.t = now,
                                         !.pf = lastOp.force, !.pv = lastOp.v,
                                         !.pt = lastOp.t]
    /\ UNCHANGED <<legacy, rev, animated, observers, data, signature, timerId, armed, now, navs, initPc, handles, queued>>

(* Time passes. *)
Advance(dt) ==
    /\ now + dt <= MaxNow
    /\ now' = now + dt
    /\ app' = Begin(app)
    /\ lastOp' = [OpRec("advance") EXCEPT !.force = lastOp.force,
                                          !.v = lastOp.v, !.t = lastOp.t]
    /\ UNCHANGED <<legacy, rev, animated, observers, data, signature, timerId, armed, fetches, polls, navs, initPc, handles, queued>>

(* store.start() called by other code of the page. *)
StoreStart ==
    LET tm == start([timerId |-> timerId, armed |-> armed])
    IN  /\ timerId' = tm.timerId
        /\ armed' = tm.armed
        /\ app' = Begin(app)
        /\ lastOp' = [OpRec("start") EXCEPT !.again = (timerId # 0)]
        /\ UNCHANGED <<legacy, rev, animated, observers, data, signature, now, fetches, polls, navs, initPc, handles, queued>>

(* store.stop() called by other code of the page. *)
StoreStop ==
    LET tm == stop([timerId |-> timerId, armed |-> armed])
    IN  /\ timerId' = tm.timerId
        /\ armed' = tm.armed
        /\ app' = Begin(app)
        /\ lastOp' = [OpRec("stop") EXCEPT !.again = (timerId = 0)]
        /\ UNCHANGED <<legacy, rev, animated, observers, data, signature, now, fetches, polls, navs, initPc, handles, queued>>

(* Object identities are interchangeable: a freshly parsed object takes the *)
(* least identity that nothing still refers to.                             *)
InUse == {0} \cup (IF data = Null THEN {} ELSE {data.obj}) \cup {app.mount.obj}

FreshObj == CHOOSE n \in 1..Cardinality(InUse) : n \notin InUse /\ \A m \in 1..(n - 1) : m \in InUse

(* bgmApp.init() after its await returned: start the poll, render the route. *)
initContinue(c) == handleRouteChange(c)

(* bgmApp.init().catch(...): the degraded-mode message on the mount. *)
initFailed(c) == [c EXCEPT !.mount = Degraded]

(* A fetch still in flight when the response to a later request arrives. *)
Overtaken(k) ==
    IF k = "tick" THEN "tick-late"
    ELSE IF k = "manual" THEN "manual-late"
    ELSE k

(* The response of fetch f arrives: the rest of load runs, then, for the    *)
(* forced load of init, the continuation of init (a microtask of the same   *)
(* task).  Notified observers run synchronously inside load.                *)
LoadResolve(i, resp) ==
    LET kind  == fetches[i]
        r     == load([data |-> data, signature |-> signature], resp, FreshObj)
        told  == IF r.changed THEN notify(observers) ELSE <<>>
        app1  == IF "core" \in Range(told)
                 THEN onContentUpdate(Begin(app), r.data)
                 ELSE Begin(app)
        app2  == IF kind # "init" THEN app1
                 ELSE IF r.threw THEN initFailed(app1)
                 ELSE initContinue(app1)
        tm0   == [timerId |-> timerId, armed |-> armed]
        tm1   == IF kind = "init"
                 THEN IF r.threw THEN tm0 ELSE start(tm0)
                 ELSE IF kind \in {"poll", "tick", "tick-late"} /\ r.threw
                      THEN pollFailed(tm0)
                      ELSE tm0
    IN  /\ i \in 1..Len(fetches)
        /\ Fits(app2)
        /\ fetches' = [j \in 1..(Len(fetches) - 1) |->
                          IF j < i THEN Overtaken(fetches[j]) ELSE fetches[j + 1]]
        /\ data' = r.data
        /\ signature' = r.signature
        /\ app' = app2
        /\ initPc' = IF kind # "init" THEN initPc
                     ELSE IF r.threw THEN "failed" ELSE "done"
        /\ timerId' = tm1.timerId
        /\ armed' = tm1.armed
        /\ queued' = IF app2.calls # <<>> THEN "" ELSE queued
        /\ lastOp' = [OpRec("load") EXCEPT !.kind = kind, !.resp = resp.kind,
                          !.status = resp.status, !.threw = r.threw,
                          !.errStatus = r.errStatus, !.changed = r.changed,
                          !.sig = IF resp.kind = "ok"
                                  THEN Stringify(Parse(resp.body, FreshObj)) ELSE <<>>,
                          !.notified = told,
                          !.afterFail = (lastOp.op = "tick" /\ lastOp.afterFail)]
        /\ UNCHANGED <<legacy, rev, animated, observers, now, polls, navs, handles>>

(* store.subscribe(o) by an outside observer; the closure it returns is     *)
(* kept as a handle.                                                        *)
Subscribe(o) ==
    LET told == subscribeCalls(data, o)
    IN  /\ Len(handles) < MaxHandles
        /\ observers' = SetAdd(observers, o)
        /\ handles' = Append([i \in 1..Len(handles) |->
                                 IF handles[i].obs = o /\ handles[i].used
                                 THEN [handles[i] EXCEPT !.resub = TRUE]
                                 ELSE handles[i]],
                             [obs |-> o, used |-> FALSE, resub |-> FALSE])
        /\ app' = Begin(app)
        /\ lastOp' = [OpRec("subscribe") EXCEPT !.who = o, !.notified = told]
        /\ UNCHANGED <<legacy, rev, animated, data, signature, timerId, armed, now, fetches, polls, navs, initPc, queued>>

(* A call of the closure handles[h]. *)
Unsubscribe(h) ==
    /\ h \in 1..Len(handles)
    /\ observers' = unsubscribe(observers, handles[h].obs)
    /\ handles' = [handles EXCEPT ![h].used = TRUE, ![h].resub = FALSE]
    /\ app' = Begin(app)
    /\ lastOp' = [OpRec("unsubscribe") EXCEPT !.who = handles[h].obs, !.h = h,
                      !.again = handles[h].used]
    /\ UNCHANGED <<legacy, rev, animated, data, signature, timerId, armed, now, fetches, polls, navs, initPc, queued>>

(* The address is changed from outside (typed, a link, back / forward):     *)
(* the browser queues a hashchange event.                                   *)
SetHash(h) ==
    /\ h \in Hashes
    /\ h # app.hash
    /\ app.hashEvents < MaxHashEvts
    /\ navs < MaxNavs
    /\ navs' = navs + 1
    /\ app' = [Begin(app) EXCEPT !.hash = h, !.hashEvents = @ + 1]
    /\ lastOp' = OpRec("setHash")
    /\ UNCHANGED <<legacy, rev, animated, observers, data, signature, timerId, armed, now, fetches,
                   polls, initPc, handles, queued>>

Requested(before, after, q) ==
    IF before.isNavigating /\ before.content # Null /\ after.attempts # <<>>
    THEN after.attempts[Len(after.attempts)]
    ELSE IF after.calls # <<>> THEN "" ELSE q

(* A queued hashchange event is delivered to handleRouteChange. *)
HashChange ==
    LET c0 == [Begin(app) EXCEPT !.hashEvents = @ - 1]
        c1 == handleRouteChange(c0)
    IN  /\ app.hashEvents > 0
        /\ app.listening
        /\ Fits(c1)
        /\ app' = c1
        /\ queued' = Requested(app, c1, queued)
        /\ lastOp' = OpRec("hashchange")
        /\ UNCHANGED <<legacy, rev, animated, observers, data, signature, timerId, armed, now, fetches,
                       polls, navs, initPc, handles>>

(* A queued hashchange event fires while no listener is attached. *)
HashChangeUnheard ==
    /\ app.hashEvents > 0
    /\ ~app.listening
    /\ app' = [Begin(app) EXCEPT !.hashEvents = @ - 1]
    /\ lastOp' = OpRec("unheard")
    /\ UNCHANGED <<legacy, rev, animated, observers, data, signature, timerId, armed, now, fetches,
                   polls, navs, initPc, handles, queued>>

(* onNavClick / onMountClick: a click on an element carrying route t. *)
NavClick(t) ==
    LET c1 == navigate(Begin(app), t)
    IN  /\ t \in Tokens
        /\ app.content # Null
        /\ navs < MaxNavs
        /\ navs' = navs + 1
        /\ Fits(c1)
        /\ app' = c1
        /\ queued' = Requested(app, c1, queued)
        /\ lastOp' = [OpRec("click") EXCEPT !.who = t]
        /\ UNCHANGED <<legacy, rev, animated, observers, data, signature, timerId, armed, now, fetches,
                       polls, initPc, handles>>

(* renderArticle of revision A ends with                                   *)
(* this.mount.closest('.route-shell').scrollTop = 0, a TypeError when the   *)
(* mount has no such ancestor; the markup is already assigned by then.      *)
rendererThrows(c, route) ==
    /\ rev = "A"
    /\ ~c.shell
    /\ route \notin Literals
    /\ route \in DOMAIN c.articlesById

commitFinally_Always(c, threw) == [c EXCEPT !.isNavigating = FALSE]

(* commitDOM().finally(...) of the branch without view transitions: the     *)
(* promise resolves after routeRenderer returned; when routeRenderer threw, *)
(* resolve() was never reached and the promise stays pending.               *)
commitFinally(c, threw) ==
    IF threw THEN c ELSE [c EXCEPT !.isNavigating = FALSE]

(* The before-paint callback of the oldest scheduled commit runs            *)
(* routeRenderer.  Without view transitions the promise of commitDOM then   *)
(* resolves and its finally clears isNavigating in the same task.           *)
Frame ==
    /\ app.transitions # <<>>
    /\ Head(app.transitions).stage = "scheduled"
    /\ LET t == Head(app.transitions)
           m == routeRenderer(app, t.route)
           threw == rendererThrows(app, t.route)
       IN  /\ app' = IF animated
                      THEN [Begin(app) EXCEPT !.mount = m,
                                              !.transitions[1].stage = "animating"]
                      ELSE commitFinally([Begin(app) EXCEPT !.mount = m,
                                                            !.transitions = Tail(@)],
                                         threw)
           /\ lastOp' = [OpRec("frame") EXCEPT !.threw = threw]
    /\ UNCHANGED <<legacy, rev, animated, observers, data, signature, timerId, armed, now, fetches,
                   polls, navs, initPc, handles, queued>>

finishedFinally_OnlyResolved(c, ok) ==
    IF ok THEN [c EXCEPT !.isNavigating = FALSE] ELSE c

(* transition.finished.finally(...): runs for a resolved (ok) and for a     *)
(* rejected promise alike.                                                  *)
finishedFinally(c, ok) == [c EXCEPT !.isNavigating = FALSE]

(* transition.finished settles (resolved or rejected): finally clears the   *)
(* guard.                                                                   *)
TransitionFinished(ok) ==
    /\ animated
    /\ app.transitions # <<>>
    /\ Head(app.transitions).stage = "animating"
    /\ app' = finishedFinally([Begin(app) EXCEPT !.transitions = Tail(@)], ok)
    /\ lastOp' = [OpRec("finished") EXCEPT !.threw = ~ok]
    /\ UNCHANGED <<legacy, rev, animated, observers, data, signature, timerId, armed, now, fetches,
                   polls, navs, initPc, handles, queued>>

(* The engine as index.html runs it: the controller is the only subscriber. *)
Next ==
    \/ InitCall
    \/ PollTick
    \/ \E i \in 1..MaxFetches, resp \in Responses : LoadResolve(i, resp)
    \/ \E h \in Hashes : SetHash(h)
    \/ HashChange
    \/ \E t \in Tokens : NavClick(t)
    \/ Frame
    \/ \E ok \in BOOLEAN : TransitionFinished(ok)

Spec == Init /\ [][Next]_vars

(* The store under outside subscribers, the controller only reacting (view  *)
(* transitions off, so a commit finishes in its before-paint callback).    *)
NextStore ==
    \/ InitCall
    \/ PollTick
    \/ \E i \in 1..MaxFetches, resp \in Responses : LoadResolve(i, resp)
    \/ \E o \in Outside : Subscribe(o)
    \/ \E h \in 1..MaxHandles : Unsubscribe(h)
    \/ HashChange
    \/ Frame

SpecStore == InitStore /\ [][NextStore]_vars

(* Addresses whose fragment carries whitespace around the route, or nothing  *)
(* but whitespace.                                                          *)
PaddedHashes ==
    {NoHash, <<"#", " ">>, <<"#", " ", "a1", " ">>, <<"#", "latest", " ">>,
     <<"#", " ", "ghost">>}

InitRoute == Start({FALSE}, PaddedHashes)

(* The router on padded addresses: the page is opened at one of them and    *)
(* the content keeps changing under it.                                     *)
NextRoute ==
    \/ InitCall
    \/ PollTick
    \/ \E i \in 1..MaxFetches, resp \in Responses : LoadResolve(i, resp)
    \/ HashChange
    \/ Frame

SpecRoute == InitRoute /\ [][NextRoute]_vars

(* The router alone: one snapshot, loaded by init, and navigation by        *)
(* clicks and by address changes.                                           *)
NextNav ==
    \/ InitCall
    \/ \E i \in 1..MaxFetches, resp \in Responses : LoadResolve(i, resp)
    \/ \E h \in Hashes : SetHash(h)
    \/ HashChange
    \/ \E t \in Tokens : NavClick(t)
    \/ Frame
    \/ \E ok \in BOOLEAN : TransitionFinished(ok)

SpecNav == Init /\ [][NextNav]_vars

(* The engine script from its first statement, on pages that lack some of  *)
(* the surfaces the constructor resolves.                                   *)
NextBoot ==
    \/ \E resolved \in SUBSET Surfaces : Construct(resolved)
    \/ InitCall
    \/ PollTick
    \/ \E i \in 1..MaxFetches, resp \in Responses : LoadResolve(i, resp)
    \/ \E h \in Hashes : SetHash(h)
    \/ HashChange
    \/ HashChangeUnheard
    \/ Frame

SpecBoot == InitBoot /\ [][NextBoot]_vars

(* Rendering without view transitions, on pages with and without a          *)
(* .route-shell around the mount.                                           *)
NextRender ==
    \/ InitCall
    \/ \E i \in 1..MaxFetches, resp \in Responses : LoadResolve(i, resp)
    \/ \E h \in Hashes : SetHash(h)
    \/ HashChange
    \/ \E t \in Tokens : NavClick(t)
    \/ Frame

SpecRender == InitRender /\ [][NextRender]_vars

(* The store with its timer driven from outside as well: start() and stop() *)
(* are called by other code of the page, and ticks may overlap.             *)
NextPoll ==
    \/ InitCall
    \/ PollTickMany
    \/ \E i \in 1..MaxFetches, resp \in Responses : LoadResolve(i, resp)
    \/ StoreStart
    \/ StoreStop
    \/ HashChange
    \/ Frame

SpecPoll == InitStore /\ [][NextPoll]_vars

(* The store under a clock: loads are requested by hand, forced or not. *)
NextClock ==
    \/ InitCall
    \/ \E force \in BOOLEAN : ManualLoad(force)
    \/ \E dt \in {3000} : Advance(dt)
    \/ \E i \in 1..MaxFetches, resp \in Responses : LoadResolve(i, resp)
    \/ HashChange
    \/ Frame

SpecClock == InitStore /\ [][NextClock]_vars

----------------------------------------------------------------------------
(* C1: the committed currentRoute is a route that was valid (a fixed        *)
(* literal or a key of articlesById) against the snapshot active when it    *)
(* was committed.                                                           *)
C1_CommittedRouteValid == app.currentRoute \in Literals \cup app.commitSnap

(* C2: a route requested while a transition was in flight is the committed  *)
(* route once every transition has finished, with isNavigating false.       *)
C2_QueuedRouteCommitted ==
    (queued # "" /\ app.transitions = <<>>) =>
        (app.currentRoute = queued /\ ~app.isNavigating)

(* C3: a failed load (non-success response or unparsable body) leaves the   *)
(* stored snapshot and fingerprint as they were and notifies no subscriber. *)
C3_FailedLoadKeepsSnapshot ==
    [][(lastOp'.op = "load" /\ lastOp'.resp # "ok") =>
          (data' = data /\ signature' = signature /\ lastOp'.notified = <<>>)]_vars

C3_Witness ==
    /\ lastOp.op = "load" /\ lastOp.kind = "poll" /\ lastOp.resp = "parse"
    /\ data # Null /\ polls = 1 /\ fetches = <<>>

(* C4: a load whose fetch is not successful, or whose body does not parse,  *)
(* fails: the call throws, with the status code for a non-success response. *)
C4_FailedLoadThrows ==
    (lastOp.op = "load" /\ lastOp.resp # "ok") =>
        (lastOp.threw /\ (lastOp.resp = "http" => lastOp.errStatus = lastOp.status))

(* C5: when the forced load of init fails, startup is fatal: the mount      *)
(* shows the degraded-mode message and the application does not go on       *)
(* (no poll timer armed, init not completed).                               *)
C5_FailedInitIsFatal ==
    (lastOp.op = "load" /\ lastOp.kind = "init" /\ lastOp.resp # "ok") =>
        (app.mount = Degraded /\ initPc = "failed" /\ timerId = 0)

(* C6: a successful load whose payload serializes to the stored fingerprint *)
(* invokes no subscriber and leaves the stored snapshot object and the      *)
(* fingerprint untouched.                                                   *)
C6_SameFingerprintNoChange ==
    [][(lastOp'.op = "load" /\ lastOp'.resp = "ok" /\ lastOp'.sig = signature) =>
          (data' = data /\ signature' = signature /\ lastOp'.notified = <<>>)]_vars

C6_Witness ==
    /\ lastOp.op = "load" /\ lastOp.resp = "ok" /\ lastOp.sig = signature
    /\ ~lastOp.changed /\ data # Null /\ Len(observers) > 1

(* C7: a successful load whose payload fingerprint differs from the stored  *)
(* one invokes every registered subscriber exactly once, in registration    *)
(* order, with the new snapshot.                                            *)
C7_ChangedLoadNotifiesInOrder ==
    [][(lastOp'.op = "load" /\ lastOp'.resp = "ok" /\ lastOp'.sig # signature) =>
          (/\ lastOp'.notified = observers
           /\ Stringify(data') = lastOp'.sig
           /\ data' # data
           /\ app'.content = data')]_vars

C7_Witness ==
    /\ lastOp.op = "load" /\ lastOp.changed
    /\ lastOp.notified = <<"core", "o2", "o1">>

(* C8: subscribe invokes the observer exactly once, with the current        *)
(* snapshot, when one is stored, and not at all when none is; an observer   *)
(* is otherwise invoked only by a load that changed the snapshot.           *)
C8_SubscribeInvokesLate ==
    [][/\ lastOp'.op = "subscribe" =>
            lastOp'.notified = IF data # Null THEN <<lastOp'.who>> ELSE <<>>
       /\ lastOp'.notified # <<>> =>
            \/ lastOp'.op = "subscribe" /\ data # Null
            \/ lastOp'.op = "load" /\ data' # data]_vars

C8_Witness ==
    lastOp.op = "subscribe" /\ lastOp.notified = <<"o1">> /\ data # Null

(* C9 as claimed: a second call of an unsubscribe handle leaves the set of  *)
(* registered subscribers unchanged, whatever happened since the first.     *)
C9_SecondCallChangesNothing ==
    [][(lastOp'.op = "unsubscribe" /\ lastOp'.again) => observers' = observers]_vars

(* C9 amended: a call of an unsubscribe handle removes exactly its observer *)
(* (no one else), only registered observers are ever notified, and a second *)
(* call changes nothing provided the observer was not subscribed again      *)
(* after the handle's first call.                                           *)
C9_UnsubscribeIdempotent ==
    [][/\ lastOp'.op = "unsubscribe" =>
            /\ lastOp'.who \notin Range(observers')
            /\ observers' = Remove(observers, lastOp'.who)
            /\ (lastOp'.again /\ ~handles[lastOp'.h].resub) => observers' = observers
       /\ Range(lastOp'.notified) \subseteq Range(observers')]_vars

C9_Witness ==
    /\ lastOp.op = "unsubscribe" /\ lastOp.again
    /\ Len(observers) > 1 /\ data # Null

(* C10: normalizeRoute is total and idempotent for every token, whatever    *)
(* snapshot is loaded, also when none is.                                   *)
C10_NormalizeTotalIdempotent ==
    \A x \in Strings :
        /\ normalizeRoute(app, x) \in Strings \ {""}
        /\ normalizeRoute(app, normalizeRoute(app, x)) = normalizeRoute(app, x)

C10_Witness ==
    /\ lastOp.op = "hashchange" /\ app.content = Null
    /\ app.hash = HashOf("home") /\ app.hashEvents = 1

(* C11: normalizeRoute returns its argument unchanged exactly when the      *)
(* argument is a fixed literal route or a key of the current articlesById,  *)
(* and returns "home" for every other argument.                             *)
C11_NormalizeKeepsOnlyKnown ==
    \A x \in Strings :
        LET known == x \in Literals \/ x \in DOMAIN app.articlesById
        IN  /\ (normalizeRoute(app, x) = x) <=> known
            /\ ~known => normalizeRoute(app, x) = "home"

(* A click asked for article a1 while the index of the loaded snapshot has  *)
(* no a1: navigate normalized it to home and wrote #home to the address.    *)
C11_Witness ==
    /\ lastOp.op = "click" /\ lastOp.who = "a1"
    /\ app.content # Null
    /\ "a1" \notin DOMAIN app.articlesById
    /\ normalizeRoute(app, "a1") = "home"
    /\ app.hash = HashOf("home")

(* C12: parseHashRoute yields the fragment without its marker and without   *)
(* surrounding whitespace; for an empty result it yields the loaded         *)
(* snapshot's defaultRoute when there is one and "home" otherwise; an empty *)
(* fragment under defaultRoute = latest is rendered as route latest by init *)
(* (no commit being in flight when its load returns).                       *)
C12_ParseStripsAndDefaults ==
    LET inner == SelectSeq(app.hash, LAMBDA p : p \notin {"#", " "})
        dflt  == IF app.content # Null /\ app.content.defaultRoute # ""
                 THEN app.content.defaultRoute ELSE "home"
    IN  /\ parseHashRoute(app) = IF inner # <<>> THEN inner[1] ELSE dflt
        /\ (/\ inner = <<>>
            /\ app.content # Null
            /\ app.content.defaultRoute = "latest")
           => normalizeRoute(app, parseHashRoute(app)) = "latest"
        /\ (/\ lastOp.op = "load" /\ lastOp.kind = "init" /\ lastOp.resp = "ok"
            /\ Len(app.transitions) = Len(app.calls)
            /\ inner = <<>>
            /\ app.content.defaultRoute = "latest")
           => app.currentRoute = "latest"

(* The page was opened at a fragment of whitespace only, the snapshot of    *)
(* init names latest as its defaultRoute, and latest is the route rendered. *)
C12_Witness ==
    /\ lastOp.op = "load" /\ lastOp.kind = "init" /\ lastOp.resp = "ok"
    /\ app.hash = <<"#", " ">>
    /\ app.content.defaultRoute = "latest"
    /\ parseHashRoute(app) = "latest"
    /\ app.currentRoute = "latest"
(* C13: a content change notified while a transition is in flight is not   *)
(* lost: once no commit is pending and no hashchange is queued (nothing is  *)
(* left to run without a further outside event), the mount shows the newest *)
(* snapshot.                                                                *)
C13_RefreshNotLost ==
    (/\ app.content # Null
     /\ app.transitions = <<>>
     /\ ~app.isNavigating
     /\ app.hashEvents = 0)
    => app.mount.obj = app.content.obj

(* C14: a content change that arrives while no transition is in flight      *)
(* re-resolves the current route: every route the notification commits and  *)
(* reports through onRouteChange is valid against the new snapshot (home    *)
(* when the current article was removed), and an article still present      *)
(* stays the committed route.  (Every pending commit was scheduled by the   *)
(* notification itself: none was in flight when it arrived.)                *)
C14_ContentChangeReresolves ==
    (/\ lastOp.op = "load" /\ lastOp.kind # "init" /\ lastOp.changed
     /\ Len(app.transitions) = Len(app.calls)) =>
        \A i \in 1..Len(app.calls) :
            app.calls[i] \in Literals \cup DOMAIN app.articlesById

(* C15: in the animated branch, when the view transition's finished promise *)
(* settles, resolved or rejected, isNavigating is false again; with no      *)
(* transition left, the controller is not navigating.                       *)
C15_FinishedClearsNavigating ==
    /\ lastOp.op = "finished" => ~app.isNavigating
    /\ app.transitions = <<>> => ~app.isNavigating

(* The finished promise of an animated commit rejected, and the guard is    *)
(* down.                                                                    *)
C15_Witness ==
    /\ animated
    /\ lastOp.op = "finished" /\ lastOp.threw
    /\ ~app.isNavigating

(* C16: at most one render commit is pending at any time: from the moment   *)
(* renderRoute schedules a commit until that commit's transition completes  *)
(* no second commit is scheduled.                                           *)
C16_AtMostOneCommitPending == Len(app.transitions) <= 1

(* C17: the response of a load that was overtaken (a load issued after it   *)
(* resolved first) is compared against the fingerprint the store holds when *)
(* that response resolves, and after it the stored snapshot is the one this *)
(* last response carried.                                                   *)
C17_LastArrivalWins ==
    [][(/\ lastOp'.op = "load" /\ lastOp'.resp = "ok"
        /\ lastOp'.kind \in {"tick-late", "manual-late"}) =>
          (/\ lastOp'.changed <=> lastOp'.sig # signature
           /\ signature' = lastOp'.sig
           /\ Stringify(data') = lastOp'.sig
           /\ lastOp'.changed => lastOp'.notified = observers
           /\ ~lastOp'.changed => data' = data /\ lastOp'.notified = <<>>)]_vars

(* Two ticks were in flight together; the response to the second arrived,   *)
(* then the response to the first, which replaced the stored snapshot.      *)
C17_Witness ==
    /\ lastOp.op = "load" /\ lastOp.kind = "tick-late" /\ lastOp.resp = "ok"
    /\ lastOp.changed
    /\ polls = 2
    /\ signature = lastOp.sig

(* C18: at most one poll timer is armed at any time, and it is armed        *)
(* exactly when timerId is set; right after a call of start (a repeated one *)
(* included) one timer is armed, right after a call of stop (a repeated one *)
(* included) none is.                                                       *)
C18_OneTimerStartStop ==
    /\ armed \in {0, 1}
    /\ armed = 1 <=> timerId # 0
    /\ lastOp.op = "start" => armed = 1
    /\ lastOp.op = "stop" => armed = 0

(* start was called while a timer was armed: still exactly one is armed. *)
C18_Witness ==
    /\ lastOp.op = "start" /\ lastOp.again
    /\ armed = 1

(* C19: a failed poll tick (fetch or parse failure of the timer-driven      *)
(* load) leaves the timer as it was, and the tick that follows it, when its *)
(* fetch succeeds with changed content, swaps the snapshot and notifies the *)
(* subscribers.                                                             *)
C19_FailedTickKeepsTimer ==
    [][/\ (/\ lastOp'.op = "load"
           /\ lastOp'.kind \in {"poll", "tick", "tick-late"}
           /\ lastOp'.resp # "ok") =>
             (timerId' = timerId /\ armed' = armed)
       /\ (/\ lastOp'.op = "load" /\ lastOp'.afterFail
           /\ lastOp'.resp = "ok" /\ lastOp'.sig # signature) =>
             (/\ lastOp'.notified = observers
              /\ signature' = lastOp'.sig
              /\ data' # data)]_vars

(* A tick failed, the timer fired again, and the load of that tick swapped  *)
(* the snapshot and told the controller, the timer still armed.             *)
C19_Witness ==
    /\ lastOp.op = "load" /\ lastOp.afterFail
    /\ lastOp.changed
    /\ "core" \in Range(lastOp.notified)
    /\ armed = 1 /\ timerId # 0

(* The poll window of time t: the k with k * intervalMs <= t <              *)
(* (k + 1) * intervalMs.                                                    *)
C20_InWindow(t, k) == k * intervalMs <= t /\ t < (k + 1) * intervalMs

(* C20: the cache-busting parameter of a load that is not forced is the     *)
(* number of the poll window its time lies in, so two such loads issued at  *)
(* times of one window carry the same value; a forced load carries the      *)
(* timestamp itself.                                                        *)
C20_CacheBustWindow ==
    lastOp.op = "manual" =>
        /\ ~lastOp.force => C20_InWindow(now, lastOp.v)
        /\ lastOp.force => lastOp.v = now
        /\ (/\ ~lastOp.force /\ ~lastOp.pf /\ lastOp.pt >= 0
            /\ \E k \in 0..(MaxNow \div intervalMs) : C20_InWindow(lastOp.pt, k) /\ C20_InWindow(now, k))
           => lastOp.v = lastOp.pv

(* Two loads that were not forced, issued at different times of one poll    *)
(* window, each issued a fetch, and both carried the same parameter.        *)
C20_Witness ==
    /\ Len(fetches) = 2
    /\ lastOp.op = "manual" /\ ~lastOp.force /\ ~lastOp.pf
    /\ lastOp.pt >= 0 /\ lastOp.pt < now
    /\ C20_InWindow(lastOp.pt, lastOp.v) /\ C20_InWindow(now, lastOp.v)
    /\ lastOp.v = lastOp.pv

(* C21: renderRoute first makes the state Transitioning, then updates       *)
(* currentRoute, then invokes onRouteChange, then schedules the commit: the *)
(* callback always reads isNavigating as true (and currentRoute as its      *)
(* argument).                                                               *)
C21_CallbackSeesNavigating ==
    /\ \A i \in 1..Len(app.seen) : app.seen[i]
    /\ app.calls # <<>> => app.calls[Len(app.calls)] = app.currentRoute

(* C22: onRouteChange is invoked exactly once for every render that passes  *)
(* the guards of renderRoute, with the currentRoute that render committed   *)
(* (one call per commit scheduled, in order), and not at all by a           *)
(* renderRoute call a guard ended or by a navigate that only changed the    *)
(* address.                                                                 *)
C22_CallbackOncePerCommit ==
    LET n == Len(app.calls)
        m == Len(app.transitions)
    IN  /\ n <= Len(app.attempts)
        /\ n <= m
        /\ \A i \in 1..n :
               app.transitions[m - n + i] = [route |-> app.calls[i], stage |-> "scheduled"]
        /\ n > 0 => app.calls[n] = app.currentRoute
        /\ app.content = Null => n = 0
        /\ rev = "B" => n <= 1 /\ \A i \in 1..n : ~app.seen[i]
        /\ (rev = "A" /\ app.content # Null) => app.calls = app.attempts
        /\ (lastOp.op = "click" /\ app.attempts = <<>>) => n = 0

(* The load of init returned in revision B: renderRoute was called twice    *)
(* (by the notification, then by init); the first call committed and        *)
(* reported its route, the second was ended by the guard and reported none. *)
C22_Witness ==
    /\ rev = "B"
    /\ lastOp.op = "load" /\ lastOp.kind = "init"
    /\ Len(app.attempts) = 2
    /\ app.calls = <<app.currentRoute>>

(* C23: renderRoute called while no snapshot is loaded changes nothing:     *)
(* currentRoute and isNavigating keep the values of construction, no        *)
(* onRouteChange is made and no commit is scheduled.                        *)
C23_NoSnapshotNoRender ==
    app.content = Null =>
        /\ app.currentRoute = "home"
        /\ ~app.isNavigating
        /\ app.calls = <<>>
        /\ app.transitions = <<>>
        /\ app.mount \in {Blank, Degraded}

(* A hashchange for #latest was delivered before any snapshot arrived:      *)
(* renderRoute(latest) was called and ended at its guard.                   *)
C23_Witness ==
    /\ app.content = Null
    /\ lastOp.op = "hashchange"
    /\ app.attempts = <<"latest">>
    /\ app.currentRoute = "home"

(* C24: navigate(token), when the address differs from "#" +                *)
(* normalizeRoute(token), only sets the address to it (which queues a       *)
(* hashchange): currentRoute, isNavigating and the scheduled commits are    *)
(* untouched and renderRoute is not called; when the address already is     *)
(* that fragment, navigate leaves it alone and calls renderRoute with the   *)
(* normalized route.                                                        *)
C24_NavigateOnlySetsAddress ==
    [][lastOp'.op = "click" =>
          LET normalizedRoute == normalizeRoute(app, lastOp'.who)
              targetHash      == HashOf(normalizedRoute)
          IN  IF app.hash # targetHash
              THEN /\ app'.hash = targetHash
                   /\ app'.hashEvents = app.hashEvents + 1
                   /\ app'.attempts = <<>>
                   /\ app'.currentRoute = app.currentRoute
                   /\ app'.isNavigating = app.isNavigating
                   /\ app'.transitions = app.transitions
                   /\ app'.mount = app.mount
              ELSE /\ app'.hash = app.hash
                   /\ app'.hashEvents = app.hashEvents
                   /\ app'.attempts = <<normalizedRoute>>]_vars

(* A click on latest at another address: the address is #latest, its        *)
(* hashchange is queued, and the committed route is still the old one with  *)
(* nothing scheduled.                                                       *)
C24_Witness ==
    /\ lastOp.op = "click" /\ lastOp.who = "latest"
    /\ app.hash = HashOf("latest")
    /\ app.hashEvents = 1
    /\ app.attempts = <<>>
    /\ app.currentRoute # "latest"
    /\ ~app.isNavigating /\ app.transitions = <<>>

(* C25: the content mutation of a render never runs inside renderRoute: the *)
(* mount changes only in a before-paint callback (or to the degraded-mode   *)
(* message of a failed init); without view transitions isNavigating is true *)
(* as long as a scheduled commit's callback has not run, and false once the *)
(* last one has returned.                                                   *)
C25_CommitOnlyBeforePaint ==
    [][/\ app'.attempts # <<>> => app'.mount = app.mount
       /\ app'.mount # app.mount =>
             \/ lastOp'.op = "frame"
             \/ lastOp'.op = "load" /\ lastOp'.threw
       /\ ~animated =>
             /\ app'.transitions # <<>> => app'.isNavigating
             /\ (lastOp'.op = "frame" /\ app'.transitions = <<>>)
                   => ~app'.isNavigating]_vars

(* C26: when a required surface (mount, navigation, title) is missing, the  *)
(* constructor fails before anything is set up: from then on the store has  *)
(* no subscriber, no hashchange listener is attached, no load is issued and *)
(* no poll timer is armed.                                                  *)
C26_FailedConstructionLeavesNothing ==
    /\ (lastOp.op = "construct" /\ lastOp.threw) => initPc = "dead"
    /\ initPc = "dead" =>
          /\ observers = <<>>
          /\ ~app.listening
          /\ timerId = 0 /\ armed = 0
          /\ fetches = <<>> /\ data = Null
          /\ app.content = Null /\ app.attempts = <<>>
          /\ app.mount = Blank

(* Construction failed; the address was changed afterwards and its          *)
(* hashchange fired with nobody listening.                                  *)
C26_Witness ==
    /\ initPc = "dead"
    /\ lastOp.op = "unheard"
    /\ observers = <<>>
    /\ armed = 0

(* C27: after every content notification the controller handled, the keys   *)
(* of articlesById are exactly the ids of the articles of its current       *)
(* snapshot, each mapped to the article object of that snapshot: the index  *)
(* is rebuilt and keeps nothing of an article the new snapshot dropped.     *)
C27_IndexRebuilt ==
    /\ app.content = Null => app.articlesById = <<>>
    /\ app.content # Null =>
          /\ DOMAIN app.articlesById = Range(app.content.articles)
          /\ \A id \in DOMAIN app.articlesById :
                app.articlesById[id] = app.content.obj

(* A poll brought a snapshot without article a1 while a1 was the committed  *)
(* route of the earlier snapshot: the index has no a1 any more.             *)
C27_Witness ==
    /\ lastOp.op = "load" /\ lastOp.kind = "poll" /\ lastOp.changed
    /\ "core" \in Range(lastOp.notified)
    /\ app.currentRoute = "a1"
    /\ app.content.articles = <<>>
    /\ DOMAIN app.articlesById = {}

(* C28: isNavigating is an accurate in-flight guard: whenever a scheduled   *)
(* commit has not finished its transition, isNavigating is true; the        *)
(* completion of one render never clears it while a later render is still   *)
(* pending.                                                                 *)
C28_GuardCoversPendingCommits ==
    app.transitions # <<>> => app.isNavigating

(* C29: whenever the controller is quiescent (a snapshot is loaded,         *)
(* isNavigating is false, no hashchange, before-paint callback or           *)
(* transition completion is pending), currentRoute is                       *)
(* normalizeRoute(parseHashRoute()) for the current address and snapshot.   *)
C29_QuiescentRouteMatchesAddress ==
    (/\ app.content # Null
     /\ ~app.isNavigating
     /\ app.hashEvents = 0
     /\ app.transitions = <<>>)
    => app.currentRoute = normalizeRoute(app, parseHashRoute(app))

(* C30: without view transitions, every render that set isNavigating to     *)
(* true has set it back to false once its before-paint callback has fired,  *)
(* also when the route renderer run by that callback threw: with every      *)
(* callback fired, isNavigating is false.                                   *)
C30_CallbackFiredClearsGuard ==
    (~animated /\ app.transitions = <<>>) => ~app.isNavigating
(* C31: the step in which init's load succeeds commits and reports exactly  *)
(* one route, the one the fragment resolves to against the snapshot just    *)
(* loaded: normalizeRoute(parseHashRoute()).                                *)
C31_InitCommitsResolvedRouteOnce ==
    (lastOp.op = "load" /\ lastOp.kind = "init" /\ lastOp.resp = "ok")
        => app.calls = <<normalizeRoute(app, parseHashRoute(app))>>

(* C32: handling a fragment that is not a valid route ends after one        *)
(* redirect.  A hashchange step that rewrites the address writes "#home",   *)
(* queues exactly one hashchange for it, and "#home" resolves to a route    *)
(* equal to its own normalization; the hashchange that follows the rewrite  *)
(* leaves the address alone, queues nothing and commits home.               *)
C32_InvalidFragmentRedirectsOnce ==
    [][lastOp'.op = "hashchange" =>
          /\ app'.hash # app.hash =>
                /\ app'.hash = HashOf("home")
                /\ app'.hashEvents = app.hashEvents
                /\ normalizeRoute(app', parseHashRoute(app')) = parseHashRoute(app')
          /\ (lastOp.op = "hashchange" /\ app.attempts = <<>> /\ app.content # Null) =>
                /\ app'.hash = app.hash
                /\ app'.hashEvents = app.hashEvents - 1
                /\ app'.calls = <<"home">>]_vars

----------------------------------------------------------------------------
(* The legacy page *)

engine == <<rev, animated, observers, data, signature, timerId, armed, now, fetches,
            polls, navs, initPc, app, handles, queued, lastOp>>

(* The browser opens the legacy page at ?article=a; DOMContentLoaded calls  *)
(* App.init(), which issues the fetch of content.json.  v: whether the      *)
(* browser has document.startViewTransition.                                *)
LegacyOpen(v, a) ==
    /\ legacy.pc = "closed"
    /\ legacy' = [Closed EXCEPT !.pc = "fetching", !.vt = v, !.article = a]
    /\ UNCHANGED engine

(* App.init() after its awaits: the body is stored, the listeners are       *)
(* attached and router() is called; a rejected fetch or a body that is not  *)
(* JSON lands in the catch, which shows "System Offline".                   *)
LegacyLoaded(ok, body) ==
    /\ legacy.pc = "fetching"
    /\ legacy' = IF ok
                 THEN router([LegacyBegin(legacy) EXCEPT !.pc = "ready", !.data = body], 1)
                 ELSE [LegacyBegin(legacy) EXCEPT !.pc = "offline", !.view = "offline",
                                                  !.rendered = <<"offline">>]
    /\ UNCHANGED engine

(* App.nav(id), the onclick of a card of the home view: pushState, then     *)
(* router().                                                                *)
LegacyNav(id) ==
    /\ legacy.pc = "ready"
    /\ legacy.view = "home"
    /\ Len(legacy.back) < MaxBack
    /\ Len(legacy.callbacks) < MaxCallbacks
    /\ legacy' = router([LegacyBegin(legacy) EXCEPT !.back = Append(@, legacy.article),
                                                    !.article = id], 1)
    /\ UNCHANGED engine

(* history.back(): the address returns to the previous entry and the        *)
(* popstate listener calls router().                                        *)
LegacyBack ==
    /\ legacy.pc = "ready"
    /\ legacy.back # <<>>
    /\ Len(legacy.callbacks) < MaxCallbacks
    /\ legacy' = router([LegacyBegin(legacy)
                            EXCEPT !.article = legacy.back[Len(legacy.back)],
                                   !.back = SubSeq(@, 1, Len(@) - 1)], 1)
    /\ UNCHANGED engine

(* The browser runs the oldest update callback handed to                    *)
(* startViewTransition: updateView(articleSlug) with the slug router() read *)
(* when it was called.                                                      *)
LegacyCallback ==
    /\ legacy.callbacks # <<>>
    /\ legacy' = updateView([LegacyBegin(legacy) EXCEPT !.callbacks = Tail(@)],
                            Head(legacy.callbacks), 0)
    /\ UNCHANGED engine

NextLegacy ==
    \/ \E v \in BOOLEAN, a \in LegacyParams : LegacyOpen(v, a)
    \/ \E ok \in BOOLEAN, body \in LegacyBodies : LegacyLoaded(ok, body)
    \/ \E id \in LegacyIds : LegacyNav(id)
    \/ LegacyBack
    \/ LegacyCallback

SpecLegacy == InitStore /\ [][NextLegacy]_vars

(* C33: on the legacy page, once routing to an article id that is not in    *)
(* data.articles has run to its end (no update callback left to run), the   *)
(* step has rendered the home view and raised nothing.                      *)
C33_MissingArticleEndsAtHome ==
    (/\ legacy.pc = "ready"
     /\ legacy.callbacks = <<>>
     /\ legacy.article # ""
     /\ legacy.article \notin legacy.data.articles)
        => (legacy.rendered = <<"home">> /\ ~legacy.threw)

(* C34: load has no in-flight guard.  While an interval is armed a tick can *)
(* issue its fetch whatever is still outstanding (up to the bounds of the   *)
(* model), and every outstanding fetch can complete on its own, whichever   *)
(* others are still in flight.                                              *)
C34_TicksOverlap ==
    /\ (armed > 0 /\ polls < MaxTicks /\ Len(fetches) < MaxFetches)
          => ENABLED PollTickMany
    /\ \A i \in 1..Len(fetches) :
          ENABLED LoadResolve(i, [kind |-> "http", status |-> 500, body |-> NoBody])

(* A tick has just issued its fetch while an earlier fetch, of a tick or of *)
(* init's forced load, was still outstanding.                               *)
C34_Witness ==
    /\ lastOp.op = "tick"
    /\ Len(fetches) = 2
    /\ fetches[1] \in {"init", "tick"}

C35_Count(s, x) == Cardinality({i \in 1..Len(s) : s[i] = x})

(* C35: subscribers are registered by identity.  No observer is registered  *)
(* twice, however often it subscribed; after subscribe it has exactly one   *)
(* registration; a changed load invokes each registered observer once; and  *)
(* after a call of any handle obtained for an observer, first or repeated,  *)
(* that observer has no registration left.                                  *)
C35_RegisteredByIdentity ==
    /\ \A o \in Range(observers) : C35_Count(observers, o) = 1
    /\ lastOp.op = "subscribe" => C35_Count(observers, lastOp.who) = 1
    /\ lastOp.op = "unsubscribe" => C35_Count(observers, lastOp.who) = 0
    /\ (lastOp.op = "load" /\ lastOp.changed) =>
          \A o \in Range(observers) : C35_Count(lastOp.notified, o) = 1

(* The same observer subscribed twice, neither handle was called, and a     *)
(* changed load has just invoked it once.                                   *)
C35_Witness ==
    /\ lastOp.op = "load" /\ lastOp.changed
    /\ Len(handles) = 2
    /\ handles[1].obs = handles[2].obs
    /\ ~handles[1].used /\ ~handles[2].used
    /\ C35_Count(lastOp.notified, handles[1].obs) = 1

====
